---- MODULE Spec2Model ----
(***************************************************************************)
(* Model of pitchscrape/events/whoscored/fetch.py (class WhoScoredScraper). *)
(*                                                                         *)
(* Each modelled method is one action.  A call takes the scraper from      *)
(* pc = "idle" to pc = "done", recording the operation, its argument, the  *)
(* objects it was given (heap0), the same objects after the call (heap),   *)
(* its return value and the exception it raised, if any.  Return leads     *)
(* back to "idle".                                                         *)
(*                                                                         *)
(* Python strings are sequences of one-character strings, so that          *)
(* str.split, str.join, the "in" test and strptime are computed and not    *)
(* assumed.  Python dicts are functions; a list of dicts is a sequence of  *)
(* object identities into a heap, so that two names for one dict (the      *)
(* input list and the returned list of standardize_date) are visible.      *)
(***************************************************************************)
EXTENDS Integers, Sequences, FiniteSets, TLC

VARIABLES
    pc,         \* "idle", or "done" once a call has finished
    op,         \* the method that was called
    arg,        \* its argument
    heap0,      \* the dicts of a match list argument, before the call
    heap,       \* the same dicts after the call
    ret,        \* the value returned (<<>> when None or nothing is returned)
    isNone,     \* whether the call returned None
    exc,        \* the exception the call raised, or "none"
    season_urls, \* collate_season_data's local match_urls before it is sliced
    season_matches, \* collate_season_events' local matches_data
    failed,     \* the failures that occurred in the steps of the call
    printed     \* the error messages the call printed

vars == <<pc, op, arg, heap0, heap, ret, isNone, exc, season_urls, season_matches,
          failed, printed>>

\* Longest match list handed to standardize_date / sort_matches.
MaxLen == 3

(***************************************************************************)
(* Strings                                                                 *)
(***************************************************************************)
SP == <<" ">>

Jan == <<"J", "a", "n">>
Feb == <<"F", "e", "b">>
Mar == <<"M", "a", "r">>
Apr == <<"A", "p", "r">>
May == <<"M", "a", "y">>
Jun == <<"J", "u", "n">>
Jul == <<"J", "u", "l">>
Aug == <<"A", "u", "g">>
Sep == <<"S", "e", "p">>
Oct == <<"O", "c", "t">>
Nov == <<"N", "o", "v">>
Dec == <<"D", "e", "c">>
Mac == <<"M", "a", "c">>
Mei == <<"M", "e", "i">>
Ago == <<"A", "g", "o">>
Okt == <<"O", "k", "t">>
Des == <<"D", "e", "s">>

\* The value of a Python dict for a key that may be absent: d.get(k, default).
Get(d, k, default) == IF k \in DOMAIN d THEN d[k] ELSE default

\* Python's  ch in s  for a one-character ch.
Contains(s, ch) == \E i \in DOMAIN s : s[i] = ch

IsSpace(c) == c \in {" ", "\n", "\t"}

\* str.split() with no argument: the maximal runs of non-whitespace, in order.
RECURSIVE SplitFrom(_, _, _, _)
SplitFrom(s, i, cur, acc) ==
    IF i > Len(s)
    THEN IF cur = <<>> THEN acc ELSE Append(acc, cur)
    ELSE IF IsSpace(s[i])
         THEN SplitFrom(s, i + 1, <<>>, IF cur = <<>> THEN acc ELSE Append(acc, cur))
         ELSE SplitFrom(s, i + 1, Append(cur, s[i]), acc)

Split(s) == SplitFrom(s, 1, <<>>, <<>>)

\* sep.join(words)
RECURSIVE Join(_, _)
Join(sep, words) ==
    IF words = <<>> THEN <<>>
    ELSE IF Len(words) = 1 THEN words[1]
    ELSE words[1] \o sep \o Join(sep, Tail(words))

(***************************************************************************)
(* standardize_date                                                        *)
(***************************************************************************)
MONTH_MAPPINGS ==
    (Jan :> Jan) @@ (Feb :> Feb) @@ (Mar :> Mar) @@ (Apr :> Apr) @@
    (May :> May) @@ (Jun :> Jun) @@ (Jul :> Jul) @@ (Aug :> Aug) @@
    (Sep :> Sep) @@ (Oct :> Oct) @@ (Nov :> Nov) @@ (Dec :> Dec) @@
    (Mac :> Mar) @@ (Mei :> May) @@ (Ago :> Aug) @@ (Okt :> Oct) @@
    (Des :> Dec)

\* The mutant of StandardizedDate: the month is copied, not translated.
StandardizedDateUnmapped(date_components) ==
    Join(SP, <<date_components[1], date_components[2], date_components[3]>>)

\* " ".join([MONTH_MAPPINGS[month], date_components[1], date_components[2]])
StandardizedDate(date_components) ==
    Join(SP, <<MONTH_MAPPINGS[date_components[1]], date_components[2],
               date_components[3]>>)

\* The outcome of a call: what was raised, the objects afterwards, the value.
Raise(e, h) == [exc |-> e, heap |-> h, ret |-> <<>>]
Value(v, h) == [exc |-> "none", heap |-> h, ret |-> v]

\* The for loop of standardize_date from position i on.  A kept match has its
\* "date" overwritten in place and is appended to valid_matches.  Only a match
\* that has the key is kept (one without it reads as "" and is skipped), so
\* EXCEPT is the assignment match["date"] = standardized_date.
RECURSIVE StandardizeLoop(_, _, _, _)
StandardizeLoop(h, match_data, i, valid_matches) ==
    IF i > Len(match_data) THEN Value(valid_matches, h)
    ELSE LET match == match_data[i]
             date_string == Get(h[match], "date", <<>>)
             date_components == Split(date_string)
         IN  IF Contains(date_string, "?")
             THEN StandardizeLoop(h, match_data, i + 1, valid_matches)
             ELSE IF Len(date_components) < 3
             THEN StandardizeLoop(h, match_data, i + 1, valid_matches)
             ELSE IF date_components[1] \in DOMAIN MONTH_MAPPINGS
             THEN StandardizeLoop(
                      [h EXCEPT ![match]["date"] = StandardizedDate(date_components)],
                      match_data, i + 1, Append(valid_matches, match))
             ELSE StandardizeLoop(h, match_data, i + 1, valid_matches)

standardize_date(h, match_data) ==
    IF match_data = <<>> THEN Raise("ValueError", h)
    ELSE StandardizeLoop(h, match_data, 1, <<>>)

(***************************************************************************)
(* datetime.strptime(s, "%b %d %Y") and sorted(..., key=...)                *)
(***************************************************************************)
Digits == <<"0", "1", "2", "3", "4", "5", "6", "7", "8", "9">>

IsDigit(c) == \E i \in DOMAIN Digits : Digits[i] = c

DigitValue(c) == (CHOOSE i \in DOMAIN Digits : Digits[i] = c) - 1

RECURSIVE Number(_)
Number(w) ==
    IF w = <<>> THEN 0
    ELSE 10 * Number(SubSeq(w, 1, Len(w) - 1)) + DigitValue(w[Len(w)])

\* %b in the C locale: the English abbreviations, in calendar order.
MonthNames == <<Jan, Feb, Mar, Apr, May, Jun, Jul, Aug, Sep, Oct, Nov, Dec>>

MonthNumber(w) == CHOOSE i \in DOMAIN MonthNames : MonthNames[i] = w

\* %d: 3[0-1] | [1-2]\d | 0[1-9] | [1-9]
DayMatches(w) ==
    \/ /\ Len(w) = 2
       /\ \/ w[1] = "3" /\ w[2] \in {"0", "1"}
          \/ w[1] \in {"1", "2"} /\ IsDigit(w[2])
          \/ w[1] = "0" /\ IsDigit(w[2]) /\ w[2] # "0"
    \/ /\ Len(w) = 1
       /\ IsDigit(w[1]) /\ w[1] # "0"

\* %Y: \d\d\d\d
YearMatches(w) == Len(w) = 4 /\ \A i \in 1..4 : IsDigit(w[i])

IsLeap(y) == (y % 4 = 0) /\ ((y % 100 # 0) \/ (y % 400 = 0))

DaysInMonth(y, m) ==
    IF m = 2 THEN (IF IsLeap(y) THEN 29 ELSE 28)
    ELSE IF m \in {4, 6, 9, 11} THEN 30 ELSE 31

\* Whether strptime(s, "%b %d %Y") returns a datetime; it raises ValueError
\* otherwise.  The format's blanks match \s+, nothing may precede the month
\* or follow the year, and the date must exist in the calendar.
Parses(s) ==
    LET w == Split(s)
    IN  /\ Len(w) = 3
        /\ ~IsSpace(s[1]) /\ ~IsSpace(s[Len(s)])
        /\ \E i \in DOMAIN MonthNames : MonthNames[i] = w[1]
        /\ DayMatches(w[2])
        /\ YearMatches(w[3])
        /\ Number(w[3]) >= 1
        /\ Number(w[2]) <= DaysInMonth(Number(w[3]), MonthNumber(w[1]))

\* The datetime strptime returns, as <<year, month, day>>.
strptime(s) ==
    LET w == Split(s)
    IN  <<Number(w[3]), MonthNumber(w[1]), Number(w[2])>>

\* datetime's <
Before(a, b) ==
    \/ a[1] < b[1]
    \/ a[1] = b[1] /\ a[2] < b[2]
    \/ a[1] = b[1] /\ a[2] = b[2] /\ a[3] < b[3]

\* The sort key of sort_matches.
DateKey(h, match) == strptime(Get(h[match], "date", <<>>))

\* One step of a stable sort: x goes after every element that is not later.
RECURSIVE InsertByDate(_, _, _)
InsertByDate(sorted, x, h) ==
    IF sorted = <<>> THEN <<x>>
    ELSE IF Before(DateKey(h, x), DateKey(h, Head(sorted)))
         THEN <<x>> \o sorted
         ELSE <<Head(sorted)>> \o InsertByDate(Tail(sorted), x, h)

RECURSIVE SortFrom(_, _, _, _)
SortFrom(matches, i, sorted, h) ==
    IF i > Len(matches) THEN sorted
    ELSE SortFrom(matches, i + 1, InsertByDate(sorted, matches[i], h), h)

\* The mutant of Sorted: the list is returned in the order it came in.
Unsorted(matches, h) == matches

\* sorted(standardized_matches, key=lambda match: strptime(match.get("date", "")))
Sorted(matches, h) == SortFrom(matches, 1, <<>>, h)

(***************************************************************************)
(* sort_matches                                                            *)
(***************************************************************************)
sort_matches(h, match_data) ==
    IF match_data = <<>> THEN Raise("ValueError", h)
    ELSE LET std == standardize_date(h, match_data)
         IN  IF \E i \in DOMAIN std.ret :
                    ~Parses(Get(std.heap[std.ret[i]], "date", <<>>))
             THEN Raise("ValueError", std.heap)
             ELSE Value(Sorted(std.ret, std.heap), std.heap)

(***************************************************************************)
(* The match lists a caller can hand over                                  *)
(***************************************************************************)
D15 == <<"1", "5">>
Y2023 == <<"2", "0", "2", "3">>
Y2024 == <<"2", "0", "2", "4">>

DatePool ==
    { Jan \o SP \o D15 \o SP \o Y2024,                         \* Jan 15 2024
      Okt \o SP \o D15 \o SP \o Y2023,                         \* Okt 15 2023
      Mar \o SP \o <<"3">> \o SP \o Y2024,                     \* Mar 3 2024
      Mar \o SP \o <<"0", "3">> \o SP \o Y2024,                \* Mar 03 2024
      <<"?", " ", "?", " ", "?">>,                             \* ? ? ?
      <<"M", "o", "n", "d", "a", "y", ",">> \o SP \o Jan \o SP \o D15 \o SP \o Y2024,
                                                               \* Monday, Jan 15 2024
      Jan \o SP \o D15,                                        \* Jan 15
      Feb \o SP \o <<"3", "0">> \o SP \o Y2024,                \* Feb 30 2024
      Des \o SP \o SP \o <<"3", "1">> \o <<"\n">> \o Y2023 \o SP \o <<"x">> }
                                                               \* Des  31\n2023 x

MatchUrl == <<"m", "/">>

\* The dicts of a match list: with a date of the pool, or with no "date" key.
MatchPool ==
    { [date |-> d, url |-> MatchUrl] : d \in DatePool } \cup { [url |-> MatchUrl] }

Max(S) == CHOOSE x \in S : \A y \in S : y <= x

\* A list of n dicts, some of which may be one and the same dict: position i
\* holds object md[i], objects numbered in order of first appearance.
ListsOfLen(n) ==
    { md \in [1..n -> 1..n] :
        \A i \in 1..n : md[i] <= 1 + Max({0} \cup { md[j] : j \in 1..(i - 1) }) }

MatchLists == UNION { ListsOfLen(n) : n \in 0..MaxLen }

HeapsFor(md) == [1..Max({0} \cup { md[i] : i \in DOMAIN md }) -> MatchPool]

(***************************************************************************)
(* The scraper as a state machine                                          *)
(***************************************************************************)
Init ==
    /\ pc = "idle"
    /\ op = "none"
    /\ arg = <<>>
    /\ heap0 = <<>>
    /\ heap = <<>>
    /\ ret = <<>>
    /\ isNone = FALSE
    /\ exc = "none"
    /\ season_urls = <<>>
    /\ season_matches = <<>>
    /\ failed = {}
    /\ printed = {}

Finish(name, a, h0, out) ==
    /\ pc' = "done"
    /\ op' = name
    /\ arg' = a
    /\ heap0' = h0
    /\ heap' = out.heap
    /\ ret' = out.ret
    /\ exc' = out.exc
    /\ isNone' = FALSE
    /\ season_urls' = <<>>
    /\ season_matches' = <<>>
    /\ failed' = {}
    /\ printed' = {}

CallStandardizeDate ==
    /\ pc = "idle"
    /\ \E md \in MatchLists : \E h \in HeapsFor(md) :
          Finish("standardize_date", md, h, standardize_date(h, md))

CallSortMatches ==
    /\ pc = "idle"
    /\ \E md \in MatchLists : \E h \in HeapsFor(md) :
          Finish("sort_matches", md, h, sort_matches(h, md))

\* The caller drops the result; the scraper is ready for the next call.
Return ==
    /\ pc = "done"
    /\ pc' = "idle"
    /\ op' = "none"
    /\ arg' = <<>>
    /\ heap0' = <<>>
    /\ heap' = <<>>
    /\ ret' = <<>>
    /\ isNone' = FALSE
    /\ exc' = "none"
    /\ season_urls' = <<>>
    /\ season_matches' = <<>>
    /\ failed' = {}
    /\ printed' = {}

NextDates == CallStandardizeDate \/ CallSortMatches \/ Return

SpecDates == Init /\ [][NextDates]_vars

(***************************************************************************)
(* Properties of standardize_date and sort_matches                         *)
(***************************************************************************)
Called(name) == pc = "done" /\ op = name

Range(s) == { s[i] : i \in DOMAIN s }

Count(s, x) == Cardinality({ i \in DOMAIN s : s[i] = x })

IsPermutation(s, t) ==
    /\ Len(s) = Len(t)
    /\ \A x \in Range(s) \cup Range(t) : Count(s, x) = Count(t, x)

DateOf(h, match) == Get(h[match], "date", <<>>)

\* The three conditions under which a date is kept, as the claims state them.
KeptDate(d) ==
    /\ ~Contains(d, "?")
    /\ Len(Split(d)) >= 3
    /\ Split(d)[1] \in DOMAIN MONTH_MAPPINGS

\* The matches of the argument whose date, before the call, is a kept one.
KeptMatches == SelectSeq(arg, LAMBDA match : KeptDate(DateOf(heap0, match)))

Ascending ==
    \A i \in 1..(Len(ret) - 1) :
        ~Before(strptime(DateOf(heap, ret[i + 1])), strptime(DateOf(heap, ret[i])))

\* C2 as stated: for any non-empty match list sort_matches returns the kept
\* matches, permuted into ascending (year, month, day) order.
C2_SortsAnyNonEmptyList ==
    (Called("sort_matches") /\ arg # <<>>) =>
        /\ exc = "none"
        /\ IsPermutation(ret, KeptMatches)
        /\ Ascending

\* C2 amended: whenever sort_matches returns (it raises ValueError when a kept
\* date does not parse as a calendar date), the result is a permutation of the
\* matches standardize_date keeps and every adjacent pair is in ascending
\* (year, month, day) order.
C2_SortsWhenItReturns ==
    (Called("sort_matches") /\ exc = "none") =>
        /\ IsPermutation(ret, KeptMatches)
        /\ Ascending

\* sort_matches returned at least two matches in another order than they came.
C2_Witness ==
    /\ Called("sort_matches") /\ exc = "none"
    /\ Len(ret) >= 2
    /\ ret # KeptMatches

\* 'Day, Mon DD YYYY': a weekday name with its comma, then a date that parses.
DocumentedFormat(d) ==
    LET c == Split(d)
    IN  /\ Len(c) = 4
        /\ c[1][Len(c[1])] = ","
        /\ Parses(Join(SP, Tail(c)))

\* C3: a match whose date is in the documented format 'Day, Mon DD YYYY' is
\* kept by standardize_date and sort_matches and appears in their output.
C3_DocumentedFormatIsKept ==
    (pc = "done" /\ op \in {"standardize_date", "sort_matches"} /\ exc = "none") =>
        \A i \in DOMAIN arg :
            DocumentedFormat(DateOf(heap0, arg[i])) => arg[i] \in Range(ret)

\* C4: sort_matches raises ValueError whenever match_data is empty or holds a
\* match whose date contains '?', has fewer than three components or starts
\* with an unknown month abbreviation.
C4_SortMatchesRaisesOnInvalidDate ==
    (Called("sort_matches")
        /\ (arg = <<>> \/ \E i \in DOMAIN arg :
                              /\ "date" \in DOMAIN heap0[arg[i]]
                              /\ ~KeptDate(DateOf(heap0, arg[i])))) =>
        exc = "ValueError"

\* C5: for a non-empty input standardize_date returns, in input order, exactly
\* the matches whose date has no '?', at least three components and a first
\* component that is a key of the month table; each returned match's date is
\* the English abbreviation, the second and the third component, joined by
\* single blanks.
C5_StandardizeDateKeepsAndTranslates ==
    (Called("standardize_date") /\ arg # <<>>) =>
        /\ exc = "none"
        /\ ret = KeptMatches
        /\ \A i \in DOMAIN ret :
              LET c == Split(DateOf(heap0, ret[i]))
              IN  /\ MONTH_MAPPINGS[c[1]] \in Range(MonthNames)
                  /\ DateOf(heap, ret[i]) =
                         MONTH_MAPPINGS[c[1]] \o SP \o c[2] \o SP \o c[3]

\* standardize_date dropped a match, kept another and rewrote a kept date.
C5_Witness ==
    /\ Called("standardize_date")
    /\ ret # <<>>
    /\ Len(ret) < Len(arg)
    /\ \E i \in DOMAIN ret : DateOf(heap, ret[i]) # DateOf(heap0, ret[i])

\* C6: standardize_date does not modify its input: every match record of the
\* input list, its 'date' included, is after the call what it was before.
\* (The list itself is arg, which no action rewrites.)
C6_StandardizeDateLeavesInput ==
    Called("standardize_date") => heap = heap0

(***************************************************************************)
(* fetch_match_overview                                                    *)
(*                                                                         *)
(* The browser shows one fixtures page at a time; "previous" loads the     *)
(* next older page, and changes nothing on the oldest.  A page is the      *)
(* sequence of its date accordions, an accordion is its header text and    *)
(* its match rows, and a row is its link, its two team names and the       *)
(* spans of the link.                                                      *)
(***************************************************************************)
\* Most pages a stage's fixtures are spread over, and accordions on a page.
MaxPages == 2
MaxSections == 2

Live == <<"L", "i", "v", "e">>
Show == <<"S", "h", "o", "w">>

\* Python's  sub in s  for strings.
HasSub(s, sub) ==
    \E i \in 0..(Len(s) - Len(sub)) : SubSeq(s, i + 1, i + Len(sub)) = sub

\* The mutant of IsCompleted: every row is taken.
IsCompletedAlways(href) == TRUE

\* if "Live" in match_link.get_attribute("href")
IsCompleted(href) == HasSub(href, Live)

\* match_info as built from one row under one date header.
MatchInfo(date_header, match_row) ==
    [date |-> date_header,
     home |-> match_row.teams[1],
     away |-> match_row.teams[2],
     score |-> Join(<<":">>, match_row.spans),
     url |-> match_row.href]

RECURSIVE RowsFrom(_, _, _, _)
RowsFrom(date_header, match_rows, i, matches_data) ==
    IF i > Len(match_rows) THEN matches_data
    ELSE RowsFrom(date_header, match_rows, i + 1,
                  IF IsCompleted(match_rows[i].href)
                  THEN Append(matches_data, MatchInfo(date_header, match_rows[i]))
                  ELSE matches_data)

RECURSIVE AccordionsFrom(_, _, _)
AccordionsFrom(date_accordions, i, matches_data) ==
    IF i > Len(date_accordions) THEN matches_data
    ELSE AccordionsFrom(date_accordions, i + 1,
                        RowsFrom(date_accordions[i].header,
                                 date_accordions[i].rows, 1, matches_data))

\* The while loop with page k on screen: harvest it, click "previous", and stop
\* when the page source did not change.
RECURSIVE OverviewFrom(_, _, _)
OverviewFrom(pages, k, matches_data) ==
    LET harvested == AccordionsFrom(pages[k], 1, matches_data)
        shown == IF k < Len(pages) THEN k + 1 ELSE k
    IN  IF pages[shown] = pages[k] THEN harvested
        ELSE OverviewFrom(pages, shown, harvested)

fetch_match_overview(pages) == OverviewFrom(pages, 1, <<>>)

\* The rows and accordions of the modelled site.
RowAB == [href |-> <<"m", "1", "/">> \o Live, teams |-> <<"A", "B">>,
          spans |-> <<<<"2">>, <<"1">>>>]
RowCD == [href |-> <<"m", "2", "/">> \o Show, teams |-> <<"C", "D">>,
          spans |-> <<>>]
RowAC == [href |-> <<"m", "3", "/">> \o Live, teams |-> <<"A", "C">>,
          spans |-> <<<<"0">>, <<"0">>>>]
RowBC == [href |-> <<"m", "4", "/">> \o Live, teams |-> <<"B", "C">>,
          spans |-> <<<<"1">>, <<"3">>>>]
RowBD == [href |-> <<"m", "5", "/">> \o Live, teams |-> <<"B", "D">>,
          spans |-> <<<<"1">>, <<"1">>>>]

SectionJan == [header |-> Jan \o SP \o D15 \o SP \o Y2024, rows |-> <<RowAB, RowCD>>]
SectionOkt == [header |-> Okt \o SP \o D15 \o SP \o Y2023, rows |-> <<RowAC, RowBC>>]
SectionDay == [header |-> <<"M", "o", "n", "d", "a", "y", ",">> \o SP \o Mar \o SP
                              \o <<"3">> \o SP \o Y2024,
               rows |-> <<RowCD, RowBD>>]

SectionPool == {SectionJan, SectionOkt, SectionDay}

SeqsUpTo(S, n) == UNION { [1..k -> S] : k \in 0..n }

PagePool == SeqsUpTo(SectionPool, MaxSections)

\* The browser always shows a page: at least one.
PageRuns == SeqsUpTo(PagePool, MaxPages) \ {<<>>}

CallFetchMatchOverview ==
    /\ pc = "idle"
    /\ \E pages \in PageRuns :
          Finish("fetch_match_overview", pages, <<>>,
                 Value(fetch_match_overview(pages), <<>>))

NextOverview == CallFetchMatchOverview \/ Return

SpecOverview == Init /\ [][NextOverview]_vars

\* C8: every record fetch_match_overview returns has exactly the five fields
\* date, home, away, score and url and comes from a match row whose link
\* contains 'Live'; no row whose link lacks 'Live' produces a record.
C8_OverviewRecordsAreCompletedFixtures ==
    Called("fetch_match_overview") =>
        \A i \in DOMAIN ret :
            /\ DOMAIN ret[i] = {"date", "home", "away", "score", "url"}
            /\ HasSub(ret[i].url, Live)
            /\ \E k \in DOMAIN arg : \E a \in DOMAIN arg[k] :
                  \E r \in DOMAIN arg[k][a].rows :
                     LET row == arg[k][a].rows[r]
                     IN  /\ HasSub(row.href, Live)
                         /\ ret[i].url = row.href
                         /\ ret[i].date = arg[k][a].header
                         /\ ret[i].home = row.teams[1]
                         /\ ret[i].away = row.teams[2]

\* A page with a completed and an upcoming match was harvested: the first
\* produced a record, the second did not.
C8_Witness ==
    /\ Called("fetch_match_overview")
    /\ ret # <<>>
    /\ \E k \in DOMAIN arg : \E a \in DOMAIN arg[k] : \E r \in DOMAIN arg[k][a].rows :
          /\ ~HasSub(arg[k][a].rows[r].href, Live)
          /\ \A i \in DOMAIN ret : ret[i].url # arg[k][a].rows[r].href

(***************************************************************************)
(* fetch_match_data, extract_events, fetch_match_events                    *)
(*                                                                         *)
(* A step returns Ok(value) or raises: Err(exception, what failed).  A     *)
(* match page is unreachable (driver.get raises WebDriverException),       *)
(* broken (the script or the breadcrumb is not where it is looked for) or  *)
(* holds match data.  Of the events table, the model keeps matchId, the    *)
(* translated satisfiedEventsTypes and the event-type columns; the other   *)
(* columns are copies of fields of the event.                              *)
(***************************************************************************)
\* Largest event-type id, most events of a match, most types of an event.
MaxTypeId == 2
MaxEvents == 2
MaxSatisfied == 2

Ok(v) == [exc |-> "none", ret |-> v, failed |-> {}]
Err(e, why) == [exc |-> e, ret |-> <<>>, failed |-> {why}]

\* str(e), which fetch_match_data returns when the page cannot be loaded.
PyStr(text) == [pystr |-> text]
IsStr(v) == DOMAIN v = {"pystr"}

fetch_match_data(page) ==
    IF page.status = "unreachable"
    THEN [exc |-> "none", ret |-> PyStr("Message: unreachable"),
          failed |-> {"navigation failure"}]
    ELSE IF page.status = "broken"
    THEN Err("NoSuchElementException", "element not found")
    ELSE Ok(page.data)

\* The keys of match_data that event.update reads.
MatchLevelKeys ==
    {"matchId", "startDate", "startTime", "score", "ftScore", "htScore",
     "etScore", "venueName", "maxMinute"}

\* The keys read after the events table is built.
LookupKeys == {"matchCentreEventTypeJson", "playerIdNameDictionary", "home", "away"}

\* list(eventTypeDict.values()).index(event): the first position holding the
\* id; 0 stands for the ValueError of a missing id.
IndexOf(eventTypeDict, id) ==
    IF \E i \in DOMAIN eventTypeDict : eventTypeDict[i].id = id
    THEN CHOOSE i \in DOMAIN eventTypeDict :
            /\ eventTypeDict[i].id = id
            /\ \A j \in 1..(i - 1) : eventTypeDict[j].id # id
    ELSE 0

\* list(eventTypeDict.keys())[list(eventTypeDict.values()).index(event)]
TypeNameOf(eventTypeDict, id) == eventTypeDict[IndexOf(eventTypeDict, id)].name

\* One row of events_df.
EventRow(match_data, event) ==
    LET eventTypeDict == match_data.matchCentreEventTypeJson
        names == [i \in DOMAIN event.satisfiedEventsTypes |->
                     TypeNameOf(eventTypeDict, event.satisfiedEventsTypes[i])]
    IN  [matchId |-> match_data.matchId,
         eventId |-> event.eventId,
         satisfiedEventsTypes |-> names,
         columns |-> [event_type \in { eventTypeDict[i].name : i \in DOMAIN eventTypeDict }
                         |-> \E i \in DOMAIN names : names[i] = event_type]]

extract_events(match_data) ==
    IF IsStr(match_data) THEN Err("TypeError", "match data is a string")
    ELSE IF "events" \notin DOMAIN match_data THEN Err("KeyError", "missing JSON key")
    ELSE LET events == match_data.events
         IN  IF events # <<>> /\ ~(MatchLevelKeys \subseteq DOMAIN match_data)
             THEN Err("KeyError", "missing JSON key")
             ELSE IF events = <<>>
             THEN Err("KeyError", "no events")
             ELSE IF ~(LookupKeys \subseteq DOMAIN match_data)
             THEN Err("KeyError", "missing JSON key")
             ELSE IF \E e \in DOMAIN events :
                        \E i \in DOMAIN events[e].satisfiedEventsTypes :
                           IndexOf(match_data.matchCentreEventTypeJson,
                                   events[e].satisfiedEventsTypes[i]) = 0
             THEN Err("ValueError", "unknown event type id")
             ELSE Ok([e \in DOMAIN events |-> EventRow(match_data, events[e])])

\* fetch_match_events: (match_data, events_df), or (None, None) after printing.
fetch_match_events(page) ==
    LET data == fetch_match_data(page)
        table == extract_events(data.ret)
    IN  IF data.exc # "none"
        THEN [ret |-> <<>>, isNone |-> TRUE, failed |-> data.failed,
              printed |-> {"Error retrieving events data"}]
        ELSE IF table.exc # "none"
        THEN [ret |-> <<>>, isNone |-> TRUE, failed |-> data.failed \cup table.failed,
              printed |-> {"Error retrieving events data"}]
        ELSE [ret |-> <<data.ret, table.ret>>, isNone |-> FALSE,
              failed |-> data.failed, printed |-> {}]

\* matchCentreEventTypeJson: the names in the order of the JSON object.
TypeNames == <<"passAccurate", "shotOnTarget", "goalNormal">>

TypeIds == 0..MaxTypeId

EventTypeDicts ==
    { [i \in DOMAIN TypeNames |-> [name |-> TypeNames[i], id |-> ids[i]]] :
        ids \in [DOMAIN TypeNames -> TypeIds] }

MatchData(eventTypeDict, events) ==
    [matchId |-> 1, startDate |-> "d", startTime |-> "t", score |-> "s",
     ftScore |-> "s", htScore |-> "s", etScore |-> "s", venueName |-> "v",
     maxMinute |-> 90, playerIdNameDictionary |-> <<>>, home |-> "A", away |-> "B",
     matchCentreEventTypeJson |-> eventTypeDict, events |-> events]

EventsOf(lists) == [e \in DOMAIN lists |-> [eventId |-> e, satisfiedEventsTypes |-> lists[e]]]

EventLists ==
    { EventsOf(lists) : lists \in SeqsUpTo(SeqsUpTo(TypeIds, MaxSatisfied), MaxEvents) }

\* Match data without the matchCentreEventTypeJson key.
WithoutTypes(match_data) ==
    [k \in DOMAIN match_data \ {"matchCentreEventTypeJson"} |-> match_data[k]]

Done(name, a, out) ==
    /\ pc' = "done"
    /\ op' = name
    /\ arg' = a
    /\ heap0' = <<>>
    /\ heap' = <<>>
    /\ ret' = out.ret
    /\ isNone' = out.isNone
    /\ exc' = out.exc
    /\ season_urls' = out.match_urls
    /\ season_matches' = out.season_matches
    /\ failed' = out.failed
    /\ printed' = out.printed

\* The outcome of a step as the outcome of a call that does nothing else.
Plain(step) ==
    [ret |-> step.ret, isNone |-> FALSE, exc |-> step.exc, match_urls |-> <<>>,
     season_matches |-> <<>>, failed |-> step.failed, printed |-> {}]

\* The outcome of a call that catches every exception of its steps.
Caught(out) ==
    [ret |-> out.ret, isNone |-> out.isNone, exc |-> "none", match_urls |-> <<>>,
     season_matches |-> <<>>, failed |-> out.failed, printed |-> out.printed]

CallExtractEvents ==
    /\ pc = "idle"
    /\ \E d \in EventTypeDicts : \E events \in EventLists :
          \E match_data \in {MatchData(d, events), WithoutTypes(MatchData(d, events))} :
             Done("extract_events", match_data, Plain(extract_events(match_data)))

GoodData ==
    MatchData([i \in DOMAIN TypeNames |-> [name |-> TypeNames[i], id |-> i - 1]],
              EventsOf(<<<<0, 2>>, <<>>>>))

MatchPages ==
    { [status |-> "unreachable"], [status |-> "broken"],
      [status |-> "ok", data |-> GoodData],
      [status |-> "ok", data |-> WithoutTypes(GoodData)] }

CallFetchMatchEvents ==
    /\ pc = "idle"
    /\ \E page \in MatchPages :
          Done("fetch_match_events", page, Caught(fetch_match_events(page)))

NextEvents == CallExtractEvents \/ CallFetchMatchEvents \/ Return

SpecEvents == Init /\ [][NextEvents]_vars

\* C9: extract_events adds one boolean column per event-type name, and for every
\* event row and every event-type name the column is True exactly when that
\* type's id is in the event's original satisfiedEventsTypes list, whatever the
\* id-to-name table, one where two names share an id included.
C9_TypeColumnsMirrorSatisfiedTypes ==
    (Called("extract_events") /\ exc = "none") =>
        \A e \in DOMAIN ret :
            LET eventTypeDict == arg.matchCentreEventTypeJson
                original == arg.events[e].satisfiedEventsTypes
            IN  /\ DOMAIN ret[e].columns =
                       { eventTypeDict[i].name : i \in DOMAIN eventTypeDict }
                /\ \A i \in DOMAIN eventTypeDict :
                      ret[e].columns[eventTypeDict[i].name]
                          <=> (eventTypeDict[i].id \in Range(original))

(***************************************************************************)
(* fetch_competitions, fetch_matches, filter_team_matches,                 *)
(* fetch_matches_data, collate_season_data, collate_season_events          *)
(*                                                                         *)
(* The site is what the browser would find: whether the home page and the  *)
(* competition page load, the tournament buttons, the seasons on offer,    *)
(* whether there is a stages dropdown and with which stages, the fixtures  *)
(* pages of each stage, and the page behind each match link.  An element   *)
(* going stale between two looks at it is not modelled.                    *)
(***************************************************************************)
\* Most stages of a competition's season.
MaxStages == 2

\* A list of match dicts no other list shares: the dicts numbered as they stand.
SortedCopy(matches) ==
    LET out == sort_matches(matches, [i \in DOMAIN matches |-> i])
    IN  IF out.exc # "none"
        THEN Err(out.exc, IF matches = <<>> THEN "no completed matches"
                          ELSE "date does not parse")
        ELSE Ok([i \in DOMAIN out.ret |-> out.heap[out.ret[i]]])

RECURSIVE CompetitionsFrom(_, _, _)
CompetitionsFrom(competition_buttons, i, competitions) ==
    IF i > Len(competition_buttons) THEN competitions
    ELSE LET text == competition_buttons[i].name
             competition_url == competition_buttons[i].href
             competition_name ==
                 IF text = "Premier League" /\ text \in DOMAIN competitions
                 THEN "Russian Premier League" ELSE text
         IN  CompetitionsFrom(competition_buttons, i + 1,
                 IF competition_url # <<>> /\ competition_name \notin DOMAIN competitions
                 THEN [n \in DOMAIN competitions \cup {competition_name} |->
                          IF n = competition_name THEN competition_url
                          ELSE competitions[n]]
                 ELSE competitions)

NoCompetitions == [n \in {} |-> <<>>]

fetch_competitions(site) ==
    IF site.fault = "home page"
    THEN Err("WebDriverException", "navigation failure")
    ELSE Ok(CompetitionsFrom(site.buttons, 1, NoCompetitions))

\* Whether the stage is harvested: group and final stages only for the two
\* European cups, no group stage for Major League Soccer.
StageWanted(competition_name, stage_name) ==
    IF competition_name \in {"Champions League", "Europa League"}
    THEN HasSub(stage_name, <<"G", "r", "p">>)
         \/ HasSub(stage_name, <<"F", "i", "n", "a", "l", " ", "S", "t", "a", "g", "e">>)
    ELSE IF competition_name = "Major League Soccer"
    THEN ~HasSub(stage_name, <<"G", "r", "p", ".", " ">>)
    ELSE TRUE

\* if "?" not in match["date"] and "\n" not in match["date"]
ValidDate(match) == ~Contains(match.date, "?") /\ ~Contains(match.date, "\n")

RECURSIVE StagesFrom(_, _, _, _)
StagesFrom(stages, competition_name, i, match_url_list) ==
    IF i > Len(stages) THEN Ok(match_url_list)
    ELSE IF ~StageWanted(competition_name, stages[i].name)
    THEN StagesFrom(stages, competition_name, i + 1, match_url_list)
    ELSE LET sorted_matches == SortedCopy(fetch_match_overview(stages[i].pages))
         IN  IF sorted_matches.exc # "none" THEN sorted_matches
             ELSE StagesFrom(stages, competition_name, i + 1,
                             match_url_list \o SelectSeq(sorted_matches.ret, ValidDate))

Orders(S) ==
    { p \in [1..Cardinality(S) -> S] : \A i, j \in DOMAIN p : i # j => p[i] # p[j] }

\* The outcomes of fetch_matches.  The duplicates are removed through a set,
\* whose order of iteration is any, before the last sort.
fetch_matches(site, competition_urls, competition_name, season) ==
    IF competition_name \notin DOMAIN competition_urls
    THEN {Err("KeyError", "competition not found")}
    ELSE IF site.fault = "competition page"
    THEN {Err("WebDriverException", "navigation failure")}
    ELSE IF season \notin Range(site.seasons)
    THEN {Err("ValueError", "season not found")}
    ELSE LET match_url_list ==
                 IF site.dropdown
                 THEN StagesFrom(site.stages, competition_name, 1, <<>>)
                 ELSE LET sorted_matches == SortedCopy(fetch_match_overview(site.pages))
                      IN  IF sorted_matches.exc # "none" THEN sorted_matches
                          ELSE Ok(SelectSeq(sorted_matches.ret, ValidDate))
         IN  IF match_url_list.exc # "none" THEN {match_url_list}
             ELSE { SortedCopy(unique_matches) :
                      unique_matches \in Orders(Range(match_url_list.ret)) }

\* The positions of the matches of the team, the last one for each url.
TeamPositions(match_urls, team_name) ==
    { i \in DOMAIN match_urls :
        /\ team_name \in {Get(match_urls[i], "home", ""), Get(match_urls[i], "away", "")}
        /\ \A j \in (i + 1)..Len(match_urls) :
              team_name \in {Get(match_urls[j], "home", ""), Get(match_urls[j], "away", "")}
                 => match_urls[j].url # match_urls[i].url }

\* The dict comprehension keyed by url: a key stands where it was first
\* inserted and holds the value inserted last.
RECURSIVE TeamMatchesFrom(_, _, _, _)
TeamMatchesFrom(match_urls, team_name, i, seen) ==
    IF i > Len(match_urls) THEN <<>>
    ELSE IF /\ team_name \in {Get(match_urls[i], "home", ""), Get(match_urls[i], "away", "")}
            /\ match_urls[i].url \notin seen
         THEN <<match_urls[CHOOSE j \in TeamPositions(match_urls, team_name) :
                               match_urls[j].url = match_urls[i].url]>>
              \o TeamMatchesFrom(match_urls, team_name, i + 1,
                                 seen \cup {match_urls[i].url})
         ELSE TeamMatchesFrom(match_urls, team_name, i + 1, seen)

filter_team_matches(match_urls, team_name) ==
    IF match_urls = <<>> THEN Err("ValueError", "no matches")
    ELSE IF team_name = "" THEN Err("ValueError", "no team name")
    ELSE LET filtered_matches == TeamMatchesFrom(match_urls, team_name, 1, {})
         IN  IF filtered_matches = <<>> THEN Err("ValueError", "team not found")
             ELSE Ok(filtered_matches)

RECURSIVE MatchesDataFrom(_, _, _, _)
MatchesDataFrom(site, match_urls, index, collected) ==
    IF index > Len(match_urls) THEN collected
    ELSE IF collected.exc # "none" THEN collected
    ELSE LET match_details == fetch_match_data(site.matchpage[match_urls[index].url])
         IN  MatchesDataFrom(site, match_urls, index + 1,
                 [exc |-> match_details.exc,
                  ret |-> IF match_details.exc = "none"
                          THEN Append(collected.ret, match_details.ret) ELSE <<>>,
                  failed |-> collected.failed \cup match_details.failed])

fetch_matches_data(site, match_urls) ==
    IF match_urls = <<>> THEN Err("ValueError", "no matches")
    ELSE MatchesDataFrom(site, match_urls, 1, Ok(<<>>))

\* return None in the except branch, after the message is printed.
ReturnsNone(step, message) ==
    [ret |-> <<>>, isNone |-> TRUE, exc |-> "none", match_urls |-> <<>>,
     season_matches |-> <<>>, failed |-> step.failed, printed |-> {message}]

\* match_urls[:2]
FirstTwo(match_urls) == SubSeq(match_urls, 1, IF Len(match_urls) < 2 THEN Len(match_urls) ELSE 2)

\* collate_season_data from the match list of fetch_matches on.
SeasonDataFrom(site, found, team) ==
    LET message == "Error retrieving season data"
        filtered == IF team # "" THEN filter_team_matches(found.ret, team) ELSE found
        data == fetch_matches_data(site, FirstTwo(filtered.ret))
    IN  IF found.exc # "none" THEN ReturnsNone(found, message)
        ELSE IF filtered.exc # "none" THEN ReturnsNone(filtered, message)
        ELSE IF data.exc # "none" THEN ReturnsNone(data, message)
        ELSE [ret |-> data.ret, isNone |-> FALSE, exc |-> "none",
              match_urls |-> filtered.ret, season_matches |-> <<>>,
              failed |-> data.failed, printed |-> {}]

\* The outcomes of collate_season_data.
collate_season_data(site, competition, season, team) ==
    LET competition_urls == fetch_competitions(site)
    IN  IF competition_urls.exc # "none"
        THEN {ReturnsNone(competition_urls, "Error retrieving season data")}
        ELSE { SeasonDataFrom(site, found, team) :
                 found \in fetch_matches(site, competition_urls.ret, competition, season) }

RECURSIVE AllEventsFrom(_, _, _)
AllEventsFrom(season, i, all_events) ==
    IF i > Len(season) THEN all_events
    ELSE IF all_events.exc # "none" THEN all_events
    ELSE LET events_df == extract_events(season[i])
         IN  AllEventsFrom(season, i + 1,
                 [exc |-> events_df.exc,
                  ret |-> IF events_df.exc = "none"
                          THEN all_events.ret \o events_df.ret ELSE <<>>,
                  failed |-> all_events.failed \cup events_df.failed])

\* collate_season_events, given what its call of collate_season_data returned.
SeasonEventsFrom(season) ==
    LET all_events == AllEventsFrom(season.ret, 1, Ok(<<>>))
        local == [isNone |-> season.isNone, val |-> season.ret]
    IN  IF season.isNone \/ season.ret = <<>>
        THEN [season EXCEPT !.ret = <<>>, !.isNone = TRUE, !.match_urls = <<>>,
                            !.season_matches = local]
        ELSE IF all_events.exc # "none"
        THEN [ret |-> <<>>, isNone |-> TRUE, exc |-> "none", match_urls |-> <<>>,
              season_matches |-> local,
              failed |-> season.failed \cup all_events.failed,
              printed |-> season.printed \cup {"Error retrieving season events"}]
        ELSE [ret |-> all_events.ret, isNone |-> FALSE, exc |-> "none",
              match_urls |-> <<>>, season_matches |-> local,
              failed |-> season.failed, printed |-> season.printed]

collate_season_events(site, competition, season, team) ==
    { SeasonEventsFrom(data) : data \in collate_season_data(site, competition, season, team) }

\* The modelled site.
Buttons ==
    << [name |-> "LaLiga", href |-> <<"c", "1">>],
       [name |-> "Premier League", href |-> <<"c", "2">>],
       [name |-> "Premier League", href |-> <<"c", "3">>],
       [name |-> "Champions League", href |-> <<"c", "4">>],
       [name |-> "Ligue 1", href |-> <<>>] >>

StageGrp == [name |-> <<"G", "r", "p", ".", " ", "A">>, pages |-> <<<<SectionJan>>>>]
StageFinal == [name |-> <<"F", "i", "n", "a", "l", " ", "S", "t", "a", "g", "e">>,
               pages |-> <<<<SectionOkt>>, <<SectionDay, SectionJan>>>>]
StageQual == [name |-> <<"Q", "u", "a", "l">>, pages |-> <<<<>>>>]

StagePool == {StageGrp, StageFinal, StageQual}

Layouts ==
    { [dropdown |-> FALSE, stages |-> <<>>, pages |-> <<<<SectionOkt, SectionJan>>>>] }
    \cup { [dropdown |-> TRUE, stages |-> ss, pages |-> <<>>] :
             ss \in SeqsUpTo(StagePool, MaxStages) \ {<<>>} }

LiveUrls == {RowAB.href, RowAC.href, RowBC.href}

Site(fault, layout, matchpage) ==
    [fault |-> fault, buttons |-> Buttons, seasons |-> <<"2023/2024", "2022/2023">>,
     dropdown |-> layout.dropdown, stages |-> layout.stages, pages |-> layout.pages,
     matchpage |-> matchpage]

\* Every layout and every state of the match pages behind a site that loads,
\* and one site for each page that does not load.
Sites ==
    { Site("none", l, mp) : l \in Layouts, mp \in [LiveUrls -> MatchPages] }
    \cup { Site(f, [dropdown |-> TRUE, stages |-> <<StageGrp>>, pages |-> <<>>],
                 [u \in LiveUrls |-> [status |-> "ok", data |-> GoodData]]) :
              f \in {"home page", "competition page"} }

Competitions == {"LaLiga", "Champions League", "Serie A"}
Seasons == {"2023/2024", "1999/2000"}
Teams == {"", "A", "Z"}

CallCollateSeasonData ==
    /\ pc = "idle"
    /\ \E site \in Sites, competition \in Competitions, season \in Seasons, team \in Teams :
          \E out \in collate_season_data(site, competition, season, team) :
             Done("collate_season_data",
                  [site |-> site, competition |-> competition, season |-> season,
                   team |-> team], out)

CallCollateSeasonEvents ==
    /\ pc = "idle"
    /\ \E site \in Sites, competition \in Competitions, season \in Seasons, team \in Teams :
          \E out \in collate_season_events(site, competition, season, team) :
             Done("collate_season_events",
                  [site |-> site, competition |-> competition, season |-> season,
                   team |-> team], out)

NextSeason ==
    CallCollateSeasonData \/ CallCollateSeasonEvents \/ CallFetchMatchEvents \/ Return

SpecSeason == Init /\ [][NextSeason]_vars

\* The scraper with every modelled method.
Next == NextDates \/ NextOverview \/ NextEvents \/ NextSeason

Spec == Init /\ [][Next]_vars

\* C1: on success collate_season_data returns exactly one entry for every match
\* found by fetch_matches (after filter_team_matches when a team is given),
\* however many matches were found.  Success: no step failed, a list is returned.
C1_OneEntryPerMatchFound ==
    (Called("collate_season_data") /\ ~isNone /\ failed = {}) =>
        Len(ret) = Len(season_urls)

\* The failures the claim names.
NamedFailures ==
    {"navigation failure", "season not found", "team not found", "missing JSON key"}

\* C7: fetch_match_events, collate_season_data and collate_season_events never
\* propagate an exception; when a step they call fails (navigation failure,
\* season not found, team not found, missing JSON key) they print a message and
\* return None; collate_season_events returns None whenever collate_season_data
\* returned None or an empty list.
C7_FailuresArePrintedAndYieldNone ==
    (pc = "done"
        /\ op \in {"fetch_match_events", "collate_season_data", "collate_season_events"}) =>
        /\ exc = "none"
        /\ (failed \cap NamedFailures # {}) => (isNone /\ printed # {})
        /\ (op = "collate_season_events"
               /\ (season_matches.isNone \/ season_matches.val = <<>>)) => isNone

====
